---- MODULE Spec2Model ----
(***************************************************************************)
(* Failure-streak detection of find_streaks_cli.py.                        *)
(*                                                                         *)
(* The driver (main) iterates the provider's versions, caches each one by  *)
(* its order, and for every version whose three successors are cached it   *)
(* evaluates the commit one ahead of it: for every failed or timed-out     *)
(* task of a required build it first tries to extend stored streaks        *)
(* (try_to_add_to_existing_streaks) and hands the unmatched tests to the   *)
(* detector (check_for_and_find_new_streaks), inserting what it returns.   *)
(*                                                                         *)
(* The provider delivers versions newest first: it is the only delivery    *)
(* order under which the driver's guard (order+1, +2, +3 already cached)   *)
(* can ever hold.  The store outlives a run; the cache does not.           *)
(***************************************************************************)
EXTENDS Integers, Sequences, FiniteSets, TLC

VARIABLES
    feed,             \* provider data: order -> kind of task run at that commit
    collection,       \* the mongo collection: sequence of stored documents
    cached_versions,  \* main's dict: order -> the kind that names its Version
    pending,          \* the versions main's for loop has still to visit
    pc,               \* "idle" | "running" | "crashed" | "returned"
    passes,           \* number of runs of main started so far
    workers           \* position of each concurrent worker, <<>> if there is none

vars == <<feed, collection, cached_versions, pending, pc, passes, workers>>

----------------------------------------------------------------------------
(* Program constants *)

PROJECT == "mongodb-mongo-master"
TASK_FAILURE_STATUS == "failed"
OrderLimit == 36940

(* Bounds of the model *)

NumCommits == 4
MaxCommits == 6
MaxPasses == 2

(* the oldest commit of the feed: the newest ones lie around OrderLimit *)
FirstOrder == OrderLimit - 4

----------------------------------------------------------------------------
(* Optional values: None is python's None *)

None == [none |-> TRUE]

Commit(order, version_id) == [version_id |-> version_id, order |-> order]

----------------------------------------------------------------------------
(* The provider's data (evergreen Version / Build / Task / Tst).           *)

TestName == "T"
TaskName == "t1"
RequiredVariant == "req"
OptionalVariant == "opt"
RequiredDisplayName == <<"!", "r", "e", "q">>
OptionalDisplayName == <<"o", "p", "t">>

Tst(test_file) == [test_file |-> test_file]

(* the task runs a commit can have: every test listed at most once ...    *)
RunKinds ==
    {"absent", "failed_Tfail", "failed_Tpass", "timeout_Tfail", "success_Tpass"}

(* ... and with a test listed twice among the failing tests *)
DupKinds == RunKinds \cup {"failed_Tdup"}

(* ... and with a test listed once as failing and once as passing, as a    *)
(* task that ran a flaky test twice reports it *)
FlakyKinds == RunKinds \cup {"failed_Tflaky"}

VersionId(order) == order

TaskRun(order, variant, status, timed_out, fail, pass) ==
    [display_name |-> TaskName, build_variant |-> variant, order |-> order,
     version_id |-> VersionId(order), status |-> status,
     timed_out |-> timed_out, tests_fail |-> fail, tests_pass |-> pass]

TasksOfKind(order, variant, kind) ==
    CASE kind = "absent" -> <<>>
      [] kind = "failed_Tfail" ->
            <<TaskRun(order, variant, "failed", FALSE, <<Tst(TestName)>>, <<>>)>>
      [] kind = "failed_Tpass" ->
            <<TaskRun(order, variant, "failed", FALSE, <<>>, <<Tst(TestName)>>)>>
      [] kind = "timeout_Tfail" ->
            <<TaskRun(order, variant, "setup-failed", TRUE, <<Tst(TestName)>>, <<>>)>>
      [] kind = "success_Tpass" ->
            <<TaskRun(order, variant, "success", FALSE, <<>>, <<Tst(TestName)>>)>>
      [] kind = "failed_Tdup" ->
            <<TaskRun(order, variant, "failed", FALSE,
                      <<Tst(TestName), Tst(TestName)>>, <<>>)>>
      [] kind = "failed_Tflaky" ->
            <<TaskRun(order, variant, "failed", FALSE,
                      <<Tst(TestName)>>, <<Tst(TestName)>>)>>

Build(display_name, variant, tasks) ==
    [display_name |-> display_name, build_variant |-> variant, tasks |-> tasks]

Version(order, kind) ==
    [order |-> order, version_id |-> VersionId(order), project |-> PROJECT,
     builds |-> <<Build(RequiredDisplayName, RequiredVariant,
                        TasksOfKind(order, RequiredVariant, kind)),
                  Build(OptionalDisplayName, OptionalVariant,
                        TasksOfKind(order, OptionalVariant, "failed_Tfail"))>>]

(* a variant that ignores the status it is asked for *)
get_tests_of_any_status(task, status) == task.tests_fail \o task.tests_pass

get_tests(task, status) ==
    IF status = "fail" THEN task.tests_fail ELSE task.tests_pass

is_timeout(task) == task.timed_out

build_by_variant(version, build_variant) ==
    LET i == CHOOSE i \in 1..Len(version.builds) :
                 version.builds[i].build_variant = build_variant
    IN  version.builds[i]

----------------------------------------------------------------------------
(* Pure helpers of find_streaks_cli.py *)

(* a variant with the test of the display name inverted *)
_is_build_variant_optional(name) == ~(Len(name) >= 1 /\ name[1] = "!")

_is_build_variant_required(name) == Len(name) >= 1 /\ name[1] = "!"

(* a variant that takes every status other than success for a failure *)
_task_failed_lenient(task) == task.status # "success"

_task_failed(task) == task.status = TASK_FAILURE_STATUS

_get_task_from_version(task_name, build_variant, version) ==
    LET tasks == build_by_variant(version, build_variant).tasks
        task  == SelectSeq(tasks, LAMBDA t : t.display_name = task_name)
    IN  IF Len(task) # 1 THEN None ELSE task[1]

_find_test(test_name, tests) ==
    LET matching == SelectSeq(tests, LAMBDA t : t.test_file = test_name)
    IN  IF Len(matching) = 1 THEN matching[1] ELSE None

(* a variant that takes the earlier commit whenever the task ran there *)
_check_for_beginning_commit_unchecked(test_name, task, version_to_check) ==
    IF version_to_check = None THEN None
    ELSE LET task_to_check == _get_task_from_version(
                 task.display_name, task.build_variant, version_to_check)
         IN  IF task_to_check # None
             THEN Commit(task_to_check.order, task_to_check.version_id)
             ELSE None

_check_for_beginning_commit(test_name, task, version_to_check) ==
    IF version_to_check = None THEN None
    ELSE LET task_to_check == _get_task_from_version(
                 task.display_name, task.build_variant, version_to_check)
         IN  IF task_to_check # None
                  /\ _find_test(test_name, get_tests(task_to_check, "pass")) # None
             THEN Commit(task_to_check.order, task_to_check.version_id)
             ELSE None

----------------------------------------------------------------------------
(* FailureStreak and its stored form *)

create_new(project, task, test, build_variant, failing_versions, beginning_commit, ending_commit) ==
    [project |-> project, build_variant |-> build_variant, task |-> task,
     test |-> test, ending_commit |-> ending_commit,
     beginning_commit |-> beginning_commit,
     failing_versions |-> failing_versions]

(* streak.dict(exclude_none=True, exclude_unset=True): the optional fields *)
(* (the only ones that can hold None) are left out of the document when    *)
(* they are None.                                                          *)
OptionalFields == {"beginning_commit", "ending_commit"}

StreakDict(streak) ==
    LET dropped == {f \in OptionalFields : streak[f] = None}
    IN  [f \in (DOMAIN streak) \ dropped |-> streak[f]]

TestEndingCommitGrouping(test, ending_commit, beginning_commit) ==
    [test |-> test, ending_commit |-> ending_commit,
     beginning_commit |-> beginning_commit]

(* cached_versions[key] and cached_versions.get(key) *)
Cached(cached, key) == Version(key, cached[key])

Get(cached, key) == IF key \in DOMAIN cached THEN Cached(cached, key) ELSE None

----------------------------------------------------------------------------
(* Streak Detector *)

NoStreaks == [raised |-> FALSE, streaks |-> <<>>]
KeyError == [raised |-> TRUE, streaks |-> <<>>]

ResolveEndingCommit(test, task, cached) ==
    IF Get(cached, task.order + 3) # None
    THEN LET task_three_ahead == _get_task_from_version(
                 task.display_name, task.build_variant, Cached(cached, task.order + 3))
         IN  IF task_three_ahead # None
                  /\ _find_test(test, get_tests(task_three_ahead, "pass")) # None
             THEN Commit(task.order, task.version_id)
             ELSE None
    ELSE None

check_for_and_find_new_streaks(task, cached, failing_tests, project_id, version_before_current) ==
    IF (task.order + 1) \notin DOMAIN cached THEN KeyError
    ELSE
    LET task_one_ahead == _get_task_from_version(
            task.display_name, task.build_variant, Cached(cached, task.order + 1))
    IN
    IF task_one_ahead = None THEN NoStreaks
    ELSE IF (task.order + 2) \notin DOMAIN cached THEN KeyError
    ELSE
    LET task_two_ahead == _get_task_from_version(
            task.display_name, task.build_variant, Cached(cached, task.order + 2))
    IN
    IF task_two_ahead = None THEN NoStreaks
    ELSE IF ~_task_failed(task_one_ahead) \/ ~_task_failed(task_two_ahead)
    THEN NoStreaks
    ELSE
    LET tests_one_ahead == get_tests(task_one_ahead, "fail")
        tests_two_ahead == get_tests(task_two_ahead, "fail")
        qualifying == SelectSeq(failing_tests, LAMBDA test :
                          /\ _find_test(test, tests_one_ahead) # None
                          /\ _find_test(test, tests_two_ahead) # None)
        failing_tests_groupings ==
            [i \in 1..Len(qualifying) |->
                TestEndingCommitGrouping(
                    qualifying[i],
                    ResolveEndingCommit(qualifying[i], task, cached),
                    _check_for_beginning_commit(qualifying[i], task,
                                                version_before_current))]
    IN
    IF Len(failing_tests_groupings) = 0 THEN NoStreaks
    ELSE [raised |-> FALSE,
          streaks |->
            [i \in 1..Len(failing_tests_groupings) |->
                create_new(project_id, task.display_name,
                           failing_tests_groupings[i].test, task.build_variant,
                           <<Commit(task.order, task.version_id),
                             Commit(task_one_ahead.order, task_one_ahead.version_id),
                             Commit(task_two_ahead.order, task_two_ahead.version_id)>>,
                           failing_tests_groupings[i].beginning_commit,
                           failing_tests_groupings[i].ending_commit)]]

----------------------------------------------------------------------------
(* Streak Matcher and the store operations it uses *)

(* a variant that looks for the commit two ahead *)
StreakQueryTwoAhead(failing_test, task, project_id) ==
    [project |-> project_id, build_variant |-> task.build_variant,
     task |-> task.display_name, test |-> failing_test.test_file,
     order |-> task.order + 2]

StreakQuery(failing_test, task, project_id) ==
    [project |-> project_id, build_variant |-> task.build_variant,
     task |-> task.display_name, test |-> failing_test.test_file,
     order |-> task.order + 1]

(* mongo match of a document against the query: the scalar fields are      *)
(* equal and some element of failing_versions has the queried order.       *)
Matches(doc, query) ==
    /\ doc.project = query.project
    /\ doc.build_variant = query.build_variant
    /\ doc.task = query.task
    /\ doc.test = query.test
    /\ \E i \in 1..Len(doc.failing_versions) :
           doc.failing_versions[i].order = query.order

(* index of the first document find_one / update_one selects, 0 if none *)
FirstMatch(coll, query) ==
    IF \E i \in 1..Len(coll) : Matches(coll[i], query)
    THEN CHOOSE i \in 1..Len(coll) :
             /\ Matches(coll[i], query)
             /\ \A j \in 1..(i - 1) : ~Matches(coll[j], query)
    ELSE 0

_can_add_to_existing_streak(coll, failing_test, task, project_id) ==
    FirstMatch(coll, StreakQuery(failing_test, task, project_id)) # 0

SetField(doc, field, value) ==
    [f \in DOMAIN doc \cup {field} |-> IF f = field THEN value ELSE doc[f]]

(* a variant that concatenates the arrays the other way round *)
AppendCommitInFront(doc, new_commit) ==
    SetField(doc, "failing_versions",
             IF "failing_versions" \in DOMAIN doc
             THEN <<new_commit>> \o doc.failing_versions
             ELSE <<new_commit>>)

AppendCommit(doc, new_commit) ==
    SetField(doc, "failing_versions",
             IF "failing_versions" \in DOMAIN doc
             THEN Append(doc.failing_versions, new_commit)
             ELSE <<new_commit>>)

(* a variant that reopens the streak it extends: the update removes ending_commit *)
_add_test_reopening_streak(coll, failing_test, task, project_id, beginning_commit) ==
    LET i == FirstMatch(coll, StreakQuery(failing_test, task, project_id))
        new_commit == Commit(task.order, task.version_id)
        appended == AppendCommit(coll[i], new_commit)
        updated == IF beginning_commit # None
                   THEN SetField(appended, "beginning_commit", beginning_commit)
                   ELSE appended
    IN  IF i = 0 THEN coll
        ELSE [coll EXCEPT ![i] =
                 [f \in (DOMAIN updated) \ {"ending_commit"} |-> updated[f]]]

_add_test_to_existing_streak(coll, failing_test, task, project_id, beginning_commit) ==
    LET i == FirstMatch(coll, StreakQuery(failing_test, task, project_id))
        new_commit == Commit(task.order, task.version_id)
        appended == AppendCommit(coll[i], new_commit)
        updated == IF beginning_commit # None
                   THEN SetField(appended, "beginning_commit", beginning_commit)
                   ELSE appended
    IN  IF i = 0 THEN coll ELSE [coll EXCEPT ![i] = updated]

RECURSIVE TryAddFrom(_, _, _, _, _, _, _)
TryAddFrom(k, coll, non_matching_tests, failing_tests, task, project_id, version_before_current) ==
    IF k > Len(failing_tests)
    THEN [collection |-> coll, non_matching_tests |-> non_matching_tests]
    ELSE LET test == failing_tests[k]
         IN  IF _can_add_to_existing_streak(coll, test, task, project_id)
             THEN TryAddFrom(k + 1,
                      _add_test_to_existing_streak(coll, test, task, project_id,
                          _check_for_beginning_commit(test.test_file, task,
                                                      version_before_current)),
                      non_matching_tests, failing_tests, task, project_id,
                      version_before_current)
             ELSE TryAddFrom(k + 1, coll,
                      Append(non_matching_tests, test.test_file),
                      failing_tests, task, project_id, version_before_current)

try_to_add_to_existing_streaks(coll, failing_tests, task, project_id, version_before_current) ==
    TryAddFrom(1, coll, <<>>, failing_tests, task, project_id,
               version_before_current)

----------------------------------------------------------------------------
(* The driver: body of main's loop over the builds and tasks of a version. *)
(* A result is the collection so far and whether an exception escaped.     *)

InsertAll(coll, streaks) ==
    coll \o [i \in 1..Len(streaks) |-> StreakDict(streaks[i])]

(* a variant that hands every failing test to the detector, matched or not *)
EvaluateTaskHandingAllTests(coll, task, cached, version, version_before_current) ==
    IF ~(_task_failed(task) \/ is_timeout(task))
    THEN [collection |-> coll, raised |-> FALSE]
    ELSE
    LET failing_tests == get_tests(task, "fail")
        matched == try_to_add_to_existing_streaks(
                       coll, failing_tests, task, version.project,
                       version_before_current)
    IN
    IF Len(failing_tests) > 0
    THEN LET new_streaks == check_for_and_find_new_streaks(
                 task, cached,
                 [i \in 1..Len(failing_tests) |-> failing_tests[i].test_file],
                 version.project, version_before_current)
         IN  [collection |-> InsertAll(matched.collection, new_streaks.streaks),
              raised |-> new_streaks.raised]
    ELSE [collection |-> matched.collection, raised |-> FALSE]

EvaluateTask(coll, task, cached, version, version_before_current) ==
    IF ~(_task_failed(task) \/ is_timeout(task))
    THEN [collection |-> coll, raised |-> FALSE]
    ELSE
    LET failing_tests == get_tests(task, "fail")
        matched == try_to_add_to_existing_streaks(
                       coll, failing_tests, task, version.project,
                       version_before_current)
    IN
    IF Len(matched.non_matching_tests) > 0
    THEN LET new_streaks == check_for_and_find_new_streaks(
                 task, cached, matched.non_matching_tests, version.project,
                 version_before_current)
         IN  [collection |-> InsertAll(matched.collection, new_streaks.streaks),
              raised |-> new_streaks.raised]
    ELSE [collection |-> matched.collection, raised |-> FALSE]

RECURSIVE EvaluateTasksFrom(_, _, _, _, _, _)
EvaluateTasksFrom(k, res, tasks, cached, version, version_before_current) ==
    IF k > Len(tasks) \/ res.raised THEN res
    ELSE EvaluateTasksFrom(k + 1,
             EvaluateTask(res.collection, tasks[k], cached, version,
                          version_before_current),
             tasks, cached, version, version_before_current)

RECURSIVE EvaluateBuildsFrom(_, _, _, _, _)
EvaluateBuildsFrom(k, res, cached, version, version_before_current) ==
    IF k > Len(version.builds) \/ res.raised THEN res
    ELSE EvaluateBuildsFrom(k + 1,
             IF _is_build_variant_required(version.builds[k].display_name)
             THEN EvaluateTasksFrom(1, res, version.builds[k].tasks, cached,
                                    version, version_before_current)
             ELSE res,
             cached, version, version_before_current)

EvaluateVersion(coll, cached, version_before_current) ==
    EvaluateBuildsFrom(1, [collection |-> coll, raised |-> FALSE], cached,
                       Get(cached, version_before_current.order + 1),
                       version_before_current)

----------------------------------------------------------------------------
(* The provider's feed *)

FeedOrders == DOMAIN feed
TopOrder == FirstOrder + Cardinality(FeedOrders) - 1

RECURSIVE Descending(_, _)
Descending(hi, lo) == IF hi < lo THEN <<>> ELSE <<hi>> \o Descending(hi - 1, lo)

versions_by_project == Descending(TopOrder, FirstOrder)

CacheAdd(cached, order) ==
    [o \in DOMAIN cached \cup {order} |-> IF o = order THEN feed[order] ELSE cached[o]]

WindowCached(cached, order) ==
    /\ Get(cached, order + 1) # None
    /\ Get(cached, order + 2) # None
    /\ Get(cached, order + 3) # None

----------------------------------------------------------------------------
(* State machine *)

Init ==
    /\ feed \in [FirstOrder..(FirstOrder + NumCommits - 1) -> RunKinds]
    /\ collection = <<>>
    /\ cached_versions = <<>>
    /\ pending = <<>>
    /\ pc = "idle"
    /\ passes = 0
    /\ workers = <<>>

(* main is started: a fresh cache, the feed as the provider has it now *)
StartPass ==
    /\ pc = "idle"
    /\ passes < MaxPasses
    /\ pc' = "running"
    /\ passes' = passes + 1
    /\ cached_versions' = <<>>
    /\ pending' = versions_by_project
    /\ UNCHANGED <<feed, collection, workers>>

NextVersion == Version(Head(pending), feed[Head(pending)])

(* one iteration of the for loop that ends at the first continue *)
SkipAboveLimit ==
    /\ pc = "running"
    /\ pending # <<>>
    /\ NextVersion.order > OrderLimit
    /\ cached_versions' = CacheAdd(cached_versions, NextVersion.order)
    /\ pending' = Tail(pending)
    /\ UNCHANGED <<feed, collection, pc, passes, workers>>

(* one iteration of the for loop that ends at the second continue *)
SkipNotCached ==
    /\ pc = "running"
    /\ pending # <<>>
    /\ ~(NextVersion.order > OrderLimit)
    /\ ~WindowCached(CacheAdd(cached_versions, NextVersion.order), NextVersion.order)
    /\ cached_versions' = CacheAdd(cached_versions, NextVersion.order)
    /\ pending' = Tail(pending)
    /\ UNCHANGED <<feed, collection, pc, passes, workers>>

(* one iteration of the for loop that evaluates the commit one ahead *)
EvaluateCommit ==
    /\ pc = "running"
    /\ pending # <<>>
    /\ ~(NextVersion.order > OrderLimit)
    /\ WindowCached(CacheAdd(cached_versions, NextVersion.order), NextVersion.order)
    /\ LET cached == CacheAdd(cached_versions, NextVersion.order)
           res == EvaluateVersion(collection, cached, NextVersion)
       IN  /\ cached_versions' = cached
           /\ collection' = res.collection
           /\ pc' = IF res.raised THEN "crashed" ELSE "running"
    /\ pending' = Tail(pending)
    /\ UNCHANGED <<feed, passes, workers>>

(* the for loop is exhausted and main returns *)
FinishPass ==
    /\ pc = "running"
    /\ pending = <<>>
    /\ pc' = "idle"
    /\ UNCHANGED <<feed, collection, cached_versions, pending, passes, workers>>

(* between two runs the project gets one more commit at the leading edge *)
GrowWith(kinds) ==
    /\ pc = "idle"
    /\ passes >= 1
    /\ Cardinality(FeedOrders) < MaxCommits
    /\ \E kind \in kinds :
           feed' = [o \in FeedOrders \cup {TopOrder + 1} |->
                       IF o = TopOrder + 1 THEN kind ELSE feed[o]]
    /\ UNCHANGED <<collection, cached_versions, pending, pc, passes, workers>>

GrowFeed == GrowWith(RunKinds)

Next ==
    \/ StartPass
    \/ SkipAboveLimit
    \/ SkipNotCached
    \/ EvaluateCommit
    \/ FinishPass
    \/ GrowFeed

Spec == Init /\ [][Next]_vars

(* The same program over feeds in which a task run may list a test twice.  *)
InitDup ==
    /\ feed \in [FirstOrder..(FirstOrder + NumCommits - 1) -> DupKinds]
    /\ collection = <<>>
    /\ cached_versions = <<>>
    /\ pending = <<>>
    /\ pc = "idle"
    /\ passes = 0
    /\ workers = <<>>

GrowFeedDup == GrowWith(DupKinds)

NextDup ==
    \/ StartPass
    \/ SkipAboveLimit
    \/ SkipNotCached
    \/ EvaluateCommit
    \/ FinishPass
    \/ GrowFeedDup

SpecDup == InitDup /\ [][NextDup]_vars

(* The same program over feeds in which a task run may list a test both    *)
(* as failing and as passing.                                              *)
InitFlaky ==
    /\ feed \in [FirstOrder..(FirstOrder + NumCommits - 1) -> FlakyKinds]
    /\ collection = <<>>
    /\ cached_versions = <<>>
    /\ pending = <<>>
    /\ pc = "idle"
    /\ passes = 0
    /\ workers = <<>>

GrowFeedFlaky == GrowWith(FlakyKinds)

NextFlaky ==
    \/ StartPass
    \/ SkipAboveLimit
    \/ SkipNotCached
    \/ EvaluateCommit
    \/ FinishPass
    \/ GrowFeedFlaky

SpecFlaky == InitFlaky /\ [][NextFlaky]_vars

----------------------------------------------------------------------------
(* The detector called on its own: check_for_and_find_new_streaks takes    *)
(* the cache as an argument, so a caller may hand it any part of the feed. *)
(* pending keeps the order of the commit it was called for, pc becomes     *)
(* "returned" or "crashed", collection holds the streaks it returned.      *)

InitDetector ==
    /\ feed \in [FirstOrder..(FirstOrder + NumCommits - 1) -> RunKinds]
    /\ \E S \in SUBSET (DOMAIN feed) : cached_versions = [o \in S |-> feed[o]]
    /\ collection = <<>>
    /\ pending = <<>>
    /\ pc = "idle"
    /\ passes = 0
    /\ workers = <<>>

TestNames(tests) == [i \in 1..Len(tests) |-> tests[i].test_file]

DetectorCall ==
    /\ pc = "idle"
    /\ \E order \in DOMAIN cached_versions :
           /\ (order - 1) \in DOMAIN feed
           /\ LET version == Cached(cached_versions, order)
                  version_before_current == Version(order - 1, feed[order - 1])
              IN  \E b \in 1..Len(version.builds) :
                  \E k \in 1..Len(version.builds[b].tasks) :
                      LET task == version.builds[b].tasks[k]
                          new_streaks == check_for_and_find_new_streaks(
                              task, cached_versions,
                              TestNames(get_tests(task, "fail")),
                              version.project, version_before_current)
                      IN  /\ pc' = IF new_streaks.raised THEN "crashed" ELSE "returned"
                          /\ collection' = InsertAll(collection, new_streaks.streaks)
                          /\ pending' = <<order>>
    /\ UNCHANGED <<feed, cached_versions, passes, workers>>

NextDetector == DetectorCall

SpecDetector == InitDetector /\ [][NextDetector]_vars

----------------------------------------------------------------------------
(* Several workers run the body of main's loop for the same task of the    *)
(* same commit.  Every call of the store (find_one, update_one,            *)
(* insert_one) is one step; what a worker computes in between reads only   *)
(* the cache.  The workers start where main stands when it visits the      *)
(* oldest version of the feed: the cache holds the feed, the store what    *)
(* the evaluation of the newer versions has left in it.                    *)

NumWorkers == 2

RECURSIVE StoreAfter(_, _, _)
StoreAfter(hi, lo, coll) ==
    IF hi < lo THEN coll
    ELSE StoreAfter(hi - 1, lo,
             IF hi <= OrderLimit /\ WindowCached(feed, hi)
             THEN EvaluateVersion(coll, feed, Version(hi, feed[hi])).collection
             ELSE coll)

InitWorkers ==
    /\ feed \in [FirstOrder..(FirstOrder + NumCommits) -> RunKinds]
    /\ cached_versions = feed
    /\ collection = StoreAfter(TopOrder, FirstOrder + 1, <<>>)
    /\ pending = <<FirstOrder>>
    /\ pc = "running"
    /\ passes = 1
    /\ workers = [w \in 1..NumWorkers |-> "find"]

(* the failed or timed-out tasks of the required builds of the commit *)
WorkerTasks ==
    LET version == Get(cached_versions, NextVersion.order + 1)
    IN  UNION {{version.builds[b].tasks[k] :
                   k \in {k \in 1..Len(version.builds[b].tasks) :
                             LET task == version.builds[b].tasks[k]
                             IN  /\ _task_failed(task) \/ is_timeout(task)
                                 /\ Len(get_tests(task, "fail")) > 0}} :
               b \in {b \in 1..Len(version.builds) :
                         _is_build_variant_required(version.builds[b].display_name)}}

WorkerTest(task) == get_tests(task, "fail")[1]

(* _can_add_to_existing_streak: the find_one *)
WorkerFind(w) ==
    /\ workers[w] = "find"
    /\ \E task \in WorkerTasks :
           workers' = [workers EXCEPT ![w] =
               IF _can_add_to_existing_streak(collection, WorkerTest(task), task, PROJECT)
               THEN "update" ELSE "insert"]
    /\ UNCHANGED <<feed, collection, cached_versions, pending, pc, passes>>

(* _add_test_to_existing_streak: the update_one *)
WorkerUpdate(w) ==
    /\ workers[w] = "update"
    /\ \E task \in WorkerTasks :
           collection' = _add_test_to_existing_streak(
               collection, WorkerTest(task), task, PROJECT,
               _check_for_beginning_commit(WorkerTest(task).test_file, task, NextVersion))
    /\ workers' = [workers EXCEPT ![w] = "done"]
    /\ UNCHANGED <<feed, cached_versions, pending, pc, passes>>

(* the detector on the unmatched test and the insert_one of what it returns *)
WorkerInsert(w) ==
    /\ workers[w] = "insert"
    /\ \E task \in WorkerTasks :
           LET new_streaks == check_for_and_find_new_streaks(
                   task, cached_versions, <<WorkerTest(task).test_file>>, PROJECT,
                   NextVersion)
           IN  /\ collection' = InsertAll(collection, new_streaks.streaks)
               /\ pc' = IF new_streaks.raised THEN "crashed" ELSE pc
    /\ workers' = [workers EXCEPT ![w] = "done"]
    /\ UNCHANGED <<feed, cached_versions, pending, passes>>

NextWorkers ==
    \E w \in 1..NumWorkers :
        \/ WorkerFind(w)
        \/ WorkerUpdate(w)
        \/ WorkerInsert(w)

SpecWorkers == InitWorkers /\ [][NextWorkers]_vars

----------------------------------------------------------------------------
(* The same driver when the provider may also deliver the versions oldest  *)
(* first, in increasing order.                                             *)

RECURSIVE Ascending(_, _)
Ascending(lo, hi) == IF hi < lo THEN <<>> ELSE <<lo>> \o Ascending(lo + 1, hi)

StartPassAscending ==
    /\ pc = "idle"
    /\ passes < MaxPasses
    /\ pc' = "running"
    /\ passes' = passes + 1
    /\ cached_versions' = <<>>
    /\ pending' = Ascending(FirstOrder, TopOrder)
    /\ UNCHANGED <<feed, collection, workers>>

NextAnyOrder ==
    \/ StartPass
    \/ StartPassAscending
    \/ SkipAboveLimit
    \/ SkipNotCached
    \/ EvaluateCommit
    \/ FinishPass
    \/ GrowFeed

SpecAnyOrder == Init /\ [][NextAnyOrder]_vars

----------------------------------------------------------------------------
(* Vocabulary of the properties.  It reads the documents and the feed      *)
(* directly, independently of the helpers of the program.                  *)

Docs == 1..Len(collection)

Has(doc, field) == field \in DOMAIN doc

OrdersOf(doc) ==
    [j \in 1..Len(doc.failing_versions) |-> doc.failing_versions[j].order]

OrderSet(doc) == {doc.failing_versions[j].order : j \in 1..Len(doc.failing_versions)}

SameIdentity(d, e) ==
    /\ d.project = e.project
    /\ d.build_variant = e.build_variant
    /\ d.task = e.task
    /\ d.test = e.test

(* the task runs of a task name and variant at a commit of the feed *)
RunsAt(order, variant, task_name) ==
    IF order \in FeedOrders
    THEN LET builds == Version(order, feed[order]).builds
         IN  UNION {{builds[b].tasks[k] :
                        k \in {k \in 1..Len(builds[b].tasks) :
                                  builds[b].tasks[k].display_name = task_name}} :
                    b \in {b \in 1..Len(builds) : builds[b].build_variant = variant}}
    ELSE {}

Listed(test_name, tests) == \E k \in 1..Len(tests) : tests[k].test_file = test_name

(* the test is among the failing tests of a task run at the commit *)
FailsAt(order, doc) ==
    \E run \in RunsAt(order, doc.build_variant, doc.task) :
        Listed(doc.test, run.tests_fail)

(* ... of a task run whose task-level status is failed *)
FailsInFailedRunAt(order, doc) ==
    \E run \in RunsAt(order, doc.build_variant, doc.task) :
        run.status = "failed" /\ Listed(doc.test, run.tests_fail)

(* ... of a task run that failed or timed out *)
FailsInFailedOrTimedOutRunAt(order, doc) ==
    \E run \in RunsAt(order, doc.build_variant, doc.task) :
        /\ run.status = "failed" \/ run.timed_out
        /\ Listed(doc.test, run.tests_fail)

PassesAt(order, doc) ==
    \E run \in RunsAt(order, doc.build_variant, doc.task) :
        Listed(doc.test, run.tests_pass)

(* the documents a step inserts *)
Inserted == (Len(collection) + 1)..Len(collection')

(* a stored document gets entries appended by the step *)
Extended(i) ==
    /\ i \in Docs
    /\ Len(collection'[i].failing_versions) > Len(collection[i].failing_versions)

(* the step is an evaluation of the commit of this order *)
Evaluates(order) ==
    /\ pc = "running"
    /\ pending # <<>>
    /\ pending' = Tail(pending)
    /\ Head(pending) + 1 = order
    /\ Head(pending) <= OrderLimit
    /\ \A k \in 1..3 : (Head(pending) + k) \in DOMAIN cached_versions

----------------------------------------------------------------------------
(* C1: in every stored record failing_versions is non-empty and strictly   *)
(* increasing by order, after every create and every extend.               *)
C1_StrictlyIncreasing ==
    \A i \in Docs :
        /\ Len(collection[i].failing_versions) >= 1
        /\ \A j \in 1..(Len(collection[i].failing_versions) - 1) :
               collection[i].failing_versions[j].order
                   < collection[i].failing_versions[j + 1].order

----------------------------------------------------------------------------
(* C2 as stated: a record for a test at commit C is inserted only if the   *)
(* test is among the failing tests of a task run with task-level status    *)
(* failed at C, C+1 and C+2 (same task, same build variant).               *)
C2_CreatedOnlyAfterThreeFailedRuns ==
    [][\A i \in Inserted :
          \A k \in 0..2 :
              FailsInFailedRunAt(collection'[i].failing_versions[1].order + k,
                                 collection'[i])]_vars

(* C2 amended: a record for a test at commit C is inserted only if the     *)
(* test is among the failing tests of a task run at C that failed or timed *)
(* out, and of task runs with task-level status failed at C+1 and C+2.     *)
C2_CreatedOnlyAfterConfirmedWindow ==
    [][\A i \in Inserted :
          /\ FailsInFailedOrTimedOutRunAt(
                 collection'[i].failing_versions[1].order, collection'[i])
          /\ \A k \in 1..2 :
                 FailsInFailedRunAt(
                     collection'[i].failing_versions[1].order + k,
                     collection'[i])]_vars

(* a record minted at a commit whose task run only timed out *)
C2_Witness ==
    \E i \in Docs :
        /\ Len(collection[i].failing_versions) = 3
        /\ ~FailsInFailedRunAt(collection[i].failing_versions[1].order,
                               collection[i])
        /\ FailsInFailedOrTimedOutRunAt(collection[i].failing_versions[1].order,
                                        collection[i])

----------------------------------------------------------------------------
(* C3: a second pass over the unchanged feed, starting from the store the  *)
(* first pass left, inserts no record and appends no entry.                *)
C3_SecondPassChangesNothing ==
    [][(pc = "running" /\ passes = 2 /\ Cardinality(FeedOrders) = NumCommits)
          => collection' = collection]_vars

----------------------------------------------------------------------------
(* the identities main hands to the Matcher when it evaluates a commit *)
EvaluatedIdentities(order) ==
    LET version == Version(order, feed[order])
    IN  UNION {UNION {{[project |-> version.project,
                        build_variant |-> version.builds[b].tasks[k].build_variant,
                        task |-> version.builds[b].tasks[k].display_name,
                        test |-> version.builds[b].tasks[k].tests_fail[n].test_file] :
                          n \in 1..Len(version.builds[b].tasks[k].tests_fail)} :
                      k \in {k \in 1..Len(version.builds[b].tasks) :
                                \/ version.builds[b].tasks[k].status = "failed"
                                \/ version.builds[b].tasks[k].timed_out}} :
               b \in {b \in 1..Len(version.builds) :
                         version.builds[b].display_name[1] = "!"}}

(* C4: the Matcher extends a streak at a failing commit C exactly when a   *)
(* stored record of the same identity has C.order - 1 as its last          *)
(* failing_versions entry, and C then becomes the last entry.              *)
C4_ExtendsExactlyWhenLastIsPrevious ==
    [][\A order \in FeedOrders :
          Evaluates(order) =>
              \A id \in EvaluatedIdentities(order) :
                  /\ (\E i \in Docs : SameIdentity(collection[i], id) /\ Extended(i))
                     <=> (\E i \in Docs :
                             /\ SameIdentity(collection[i], id)
                             /\ OrdersOf(collection[i])
                                    [Len(collection[i].failing_versions)]
                                  = order - 1)
                  /\ \A i \in Docs :
                         (SameIdentity(collection[i], id) /\ Extended(i))
                             => OrdersOf(collection'[i])
                                    [Len(collection'[i].failing_versions)]
                                  = order]_vars

----------------------------------------------------------------------------
Max(S) == CHOOSE x \in S : \A y \in S : y <= x

Min(S) == CHOOSE x \in S : \A y \in S : x <= y

DocsOf(id) == {i \in Docs : SameIdentity(collection[i], id)}

(* C5: when T fails in task-level-failed runs at C, C+1 and C+2, passes at *)
(* C-1, the commit C+3 is not yet in the feed and the store holds no       *)
(* streak, one pass creates exactly one record for T, with failing_versions*)
(* [C, C+1, C+2], beginning_commit the commit C-1 and no ending_commit.    *)
C5_OnePassMintsOneStreak ==
    (pc = "idle" /\ passes = 1 /\ Cardinality(FeedOrders) = NumCommits) =>
        \A id \in EvaluatedIdentities(TopOrder - 2) :
            ((\A k \in 0..2 : FailsInFailedRunAt(TopOrder - 2 + k, id))
                 /\ PassesAt(TopOrder - 3, id))
            => /\ Cardinality(DocsOf(id)) = 1
               /\ \A i \in DocsOf(id) :
                      /\ OrdersOf(collection[i])
                             = <<TopOrder - 2, TopOrder - 1, TopOrder>>
                      /\ Has(collection[i], "beginning_commit")
                      /\ collection[i].beginning_commit.order = TopOrder - 3
                      /\ ~Has(collection[i], "ending_commit")

----------------------------------------------------------------------------
(* C6: a stored ending_commit is the first commit after the streak's last  *)
(* failing commit, the test is among the passing tests there, and its      *)
(* order is greater than every order in failing_versions.                  *)
C6_EndingCommitFollowsTheStreak ==
    \A i \in Docs :
        Has(collection[i], "ending_commit") =>
            /\ collection[i].ending_commit.order = Max(OrderSet(collection[i])) + 1
            /\ PassesAt(collection[i].ending_commit.order, collection[i])
            /\ \A o \in OrderSet(collection[i]) :
                   collection[i].ending_commit.order > o

----------------------------------------------------------------------------
(* the latest commit of the feed at which the test of the record fails *)
LatestFailing(doc) == Max({o \in FeedOrders : FailsAt(o, doc)})

(* a record is open when its most recent entry is that commit *)
Open(doc) ==
    doc.failing_versions[Len(doc.failing_versions)].order = LatestFailing(doc)

(* C7: no two records of one identity contain the same commit order, and   *)
(* at most one record per identity is open.                                *)
C7_RecordsOfAnIdentityDisjoint ==
    \A i \in Docs : \A j \in Docs :
        (i # j /\ SameIdentity(collection[i], collection[j])) =>
            /\ OrderSet(collection[i]) \cap OrderSet(collection[j]) = {}
            /\ ~(Open(collection[i]) /\ Open(collection[j]))

----------------------------------------------------------------------------
IsPrefix(old, new) ==
    /\ Len(old) <= Len(new)
    /\ \A j \in 1..Len(old) : new[j] = old[j]

(* C8: extending a stored record leaves every entry already present in     *)
(* failing_versions unchanged in value and position, and leaves project,   *)
(* build_variant, task, test and ending_commit unchanged.                  *)
C8_ExtendIsAppendOnly ==
    [][\A i \in Docs :
          /\ i <= Len(collection')
          /\ IsPrefix(collection[i].failing_versions,
                      collection'[i].failing_versions)
          /\ SameIdentity(collection[i], collection'[i])
          /\ Has(collection[i], "ending_commit")
                 <=> Has(collection'[i], "ending_commit")
          /\ Has(collection[i], "ending_commit")
                 => collection'[i].ending_commit = collection[i].ending_commit]_vars

(* a record that carries an ending_commit has been extended *)
C8_Witness ==
    \E i \in Docs :
        /\ Len(collection[i].failing_versions) > 3
        /\ Has(collection[i], "ending_commit")

----------------------------------------------------------------------------
(* C9: once a stored record has an ending_commit, no later step (extend,   *)
(* create, further pass) clears or changes it.                             *)
C9_EndingCommitIsFinal ==
    [][\A i \in Docs :
          Has(collection[i], "ending_commit") =>
              /\ i <= Len(collection')
              /\ Has(collection'[i], "ending_commit")
              /\ collection'[i].ending_commit = collection[i].ending_commit]_vars

(* a run of main has ended with a closed record it extended *)
C9_Witness ==
    /\ pc = "idle"
    /\ passes = 2
    /\ \E i \in Docs :
           /\ Has(collection[i], "ending_commit")
           /\ Len(collection[i].failing_versions) > 3

----------------------------------------------------------------------------
(* the step sets the beginning_commit of the i-th record of the new store *)
SetsBeginning(i) ==
    /\ Has(collection'[i], "beginning_commit")
    /\ \/ i \notin Docs
       \/ ~Has(collection[i], "beginning_commit")
       \/ collection[i].beginning_commit # collection'[i].beginning_commit

(* C10: a beginning_commit is set, at minting or at extension, only to the *)
(* commit handed in as the earlier one and only when the test is among the *)
(* passing tests of the same task and variant there; otherwise it is left  *)
(* as it was, and no error is raised.                                      *)
C10_BeginningOnlyFromPassingCommit ==
    [][/\ pc' # "crashed"
       /\ \A i \in 1..Len(collection') :
              /\ Has(collection'[i], "beginning_commit")
                     => PassesAt(collection'[i].beginning_commit.order,
                                 collection'[i])
              /\ SetsBeginning(i)
                     => /\ pending # <<>>
                        /\ collection'[i].beginning_commit.order = Head(pending)]_vars

(* an extended record with a beginning_commit next to a record without one *)
C10_Witness ==
    /\ \E i \in Docs :
           /\ Has(collection[i], "beginning_commit")
           /\ Len(collection[i].failing_versions) > 3
    /\ \E j \in Docs : ~Has(collection[j], "beginning_commit")

----------------------------------------------------------------------------
(* C11: the detector called for a commit whose first or second successor   *)
(* is not in the cache returns without raising and returns no streak.      *)
C11_DefersWhenNotCached ==
    (/\ pc \in {"returned", "crashed"}
     /\ pending # <<>>
     /\ \E k \in 1..2 : (Head(pending) + k) \notin DOMAIN cached_versions)
        => (pc = "returned" /\ collection = <<>>)

----------------------------------------------------------------------------
(* the entries of the commit that were appended to records, the minted     *)
(* three entries of a record not counted *)
AppendedEntries(order) ==
    {<<i, j>> \in Docs \X (4..(3 + NumWorkers + MaxCommits)) :
        /\ j <= Len(collection[i].failing_versions)
        /\ collection[i].failing_versions[j].order = order}

(* the records minted at the commit *)
MintedAt(order) ==
    {i \in Docs : collection[i].failing_versions[1].order = order}

(* C12: whatever the interleaving of the workers that process the same     *)
(* test of the same task at the same commit, the commit is appended to a   *)
(* record at most once and at most one record is created for it.           *)
C12_AppendedAndMintedAtMostOnce ==
    (workers # <<>> /\ pending # <<>>) =>
        /\ Cardinality(AppendedEntries(Head(pending) + 1)) <= 1
        /\ Cardinality(MintedAt(Head(pending) + 1)) <= 1

----------------------------------------------------------------------------
(* C13: an extension sets the beginning_commit of a record only when the   *)
(* record has none and the test is among the passing tests at the version  *)
(* before the evaluated commit; a beginning_commit that is stored is never *)
(* replaced by a different commit.                                         *)
C13_BeginningNeverOverwritten ==
    [][\A i \in Docs :
          /\ Has(collection[i], "beginning_commit") =>
                /\ i <= Len(collection')
                /\ Has(collection'[i], "beginning_commit")
                /\ collection'[i].beginning_commit = collection[i].beginning_commit
          /\ (Extended(i) /\ SetsBeginning(i)) =>
                /\ ~Has(collection[i], "beginning_commit")
                /\ PassesAt(Head(pending), collection[i])
                /\ collection'[i].beginning_commit.order = Head(pending)]_vars

----------------------------------------------------------------------------
(* C14: the evaluation of a commit at which a test is among the passing    *)
(* and not among the failing tests of its task changes no record of that   *)
(* test, task and variant and creates none.                                *)
C14_PassingTestChangesNothing ==
    [][\A order \in FeedOrders :
          Evaluates(order) =>
              \A i \in 1..Len(collection') :
                  (PassesAt(order, collection'[i]) /\ ~FailsAt(order, collection'[i]))
                      => (i \in Docs /\ collection'[i] = collection[i])]_vars

(* the commit main has just evaluated *)
LastEvaluated == IF pending = <<>> THEN FirstOrder + 1 ELSE Head(pending) + 2

(* main has just evaluated a commit at which the test of a stored record   *)
(* passes                                                                  *)
C14_Witness ==
    /\ pc = "running"
    /\ LastEvaluated - 1 <= OrderLimit
    /\ \A k \in (-1)..2 : (LastEvaluated + k) \in DOMAIN cached_versions
    /\ \E i \in Docs :
           /\ PassesAt(LastEvaluated, collection[i])
           /\ ~FailsAt(LastEvaluated, collection[i])

----------------------------------------------------------------------------
(* C15: every stored record carries the build_variant of builds whose      *)
(* display name starts with "!"; no record is created or extended for a    *)
(* build that is not required.                                             *)
C15_OnlyRequiredVariants ==
    \A i \in Docs :
        \A order \in FeedOrders :
            LET builds == Version(order, feed[order]).builds
            IN  \A b \in 1..Len(builds) :
                    builds[b].build_variant = collection[i].build_variant
                        => builds[b].display_name[1] = "!"

(* a record is stored while the same test fails in the failed task of the  *)
(* optional build at every commit of the record                            *)
C15_Witness ==
    \E i \in Docs :
        \A order \in OrderSet(collection[i]) :
            FailsInFailedRunAt(order,
                [collection[i] EXCEPT !.build_variant = OptionalVariant])

----------------------------------------------------------------------------
(* C17: one evaluation of a commit never both extends a record and mints   *)
(* a record for the same test of the same task and variant: a test the     *)
(* Matcher appended is not handed to the Detector.                         *)
C17_NeverExtendsAndMints ==
    [][\A order \in FeedOrders :
          Evaluates(order) =>
              \A id \in EvaluatedIdentities(order) :
                  ~(/\ \E i \in Docs : SameIdentity(collection[i], id) /\ Extended(i)
                    /\ \E i \in Inserted : SameIdentity(collection'[i], id))]_vars

(* a record has been extended by a commit whose two successors also have   *)
(* the test failing in a failed task: the Detector would have minted       *)
C17_Witness ==
    \E i \in Docs :
        LET n == Len(collection[i].failing_versions)
            last == collection[i].failing_versions[n].order
        IN  /\ n > 3
            /\ FailsInFailedOrTimedOutRunAt(last, collection[i])
            /\ FailsInFailedRunAt(last + 1, collection[i])
            /\ FailsInFailedRunAt(last + 2, collection[i])

----------------------------------------------------------------------------
(* C18: the orders of a record's failing_versions form a range of integers *)
(* without gaps of at least three, and at each of them the record's test   *)
(* is among the failing tests of the record's task and variant.            *)
C18_ContiguousFailingRange ==
    \A i \in Docs :
        LET orders == OrderSet(collection[i])
        IN  /\ Cardinality(orders) >= 3
            /\ orders = Min(orders)..Max(orders)
            /\ \A order \in orders : FailsAt(order, collection[i])

(* a record that was extended beyond the three commits it was minted with *)
C18_Witness ==
    \E i \in Docs : Cardinality(OrderSet(collection[i])) >= 4

----------------------------------------------------------------------------
(* C19: the beginning_commit of a record, when present, has the order one  *)
(* below the smallest order of its failing_versions.                       *)
C19_BeginningPrecedesStreak ==
    \A i \in Docs :
        Has(collection[i], "beginning_commit") =>
            collection[i].beginning_commit.order
                = Min(OrderSet(collection[i])) - 1

----------------------------------------------------------------------------
(* the identity of the test of the required build *)
RequiredIdentity ==
    [project |-> PROJECT, build_variant |-> RequiredVariant,
     task |-> TaskName, test |-> TestName]

(* the step is the last iteration of a walk of the feed in increasing order *)
EndsAscendingWalk ==
    /\ pc = "running"
    /\ pending = <<TopOrder>>
    /\ pending' = <<>>

(* C16: when main has walked the feed in increasing order, every commit C  *)
(* with C+1..C+3 in the feed is in a stored streak of the test if the test *)
(* fails in a failed task of the required build at C, C+1 and C+2.         *)
C16_AscendingWalkStoresStreaks ==
    [][EndsAscendingWalk =>
          \A order \in FeedOrders :
              (/\ (order + 3) \in FeedOrders
               /\ \A k \in 0..2 : FailsInFailedRunAt(order + k, RequiredIdentity))
                  => \E i \in 1..Len(collection') :
                         /\ SameIdentity(collection'[i], RequiredIdentity)
                         /\ order \in OrderSet(collection'[i])]_vars

====
